---------------------------- MODULE Spec2Model ----------------------------
(***************************************************************************)
(* Model of the win-dialog crate: the MessageBoxA builder of               *)
(* src/src/dialog.rs (WinDialog, WinDialogWithParent), the style registry  *)
(* and response decoders of src/src/style.rs, and the icon and modality    *)
(* flag conversions; and the Wscript.Shell popup builder of                *)
(* src/src/lib.rs (WinDialogBuilder, WinDialog, DialogResponse).           *)
(***************************************************************************)
EXTENDS Integers, Sequences, FiniteSets, TLC

VARIABLES
    pc,          \* "building" | "dispatched": lifecycle of the builder value
    kind,        \* "WinDialog" | "WinDialogWithParent": the type of the value
    dialog,      \* the builder value: a WinDialog<T>, or a WinDialogWithParent<T>
                 \* as [inner, window_handle, show_help_button]
    calls,       \* the MessageBoxA invocations made so far (argument records)
    result,      \* what show() returned
    ops,         \* number of builder calls made on the value so far
    plain,       \* history: the same non-style setters applied, never with_style
    hist,        \* history: how many with_style calls were made (nStyle: 0, 1,
                 \* 2 for two or more), the style of the last one (lastStyle),
                 \* whether it was the latest builder call (styleLast),
                 \* whether with_help_button was called, whether a call
                 \* other than the plain setters was made, and the default
                 \* button the value would hold had set_default_help never
                 \* been called (defaultNoHelp)
    dec,         \* the pure decoder under test: [style, code, result]
    shell        \* the lib.rs chain: [phase, cfg, run, command, outcome]

vars == <<pc, kind, dialog, calls, result, ops, plain, hist, dec, shell>>

---------------------------------------------------------------------------
(* Bounds of the model *)

\* Longest chain of builder calls between new() and show().
MaxOps == 3
\* Raw response codes handed to the decoders range up to MaxCode.
MaxCode == 12
\* Codes below zero tried by the decoders: -NegCodes .. -1.
NegCodes == 1

---------------------------------------------------------------------------
(* Win32 constants imported from the windows crate, with the values the
   Win32 API gives them *)

MB_OK == 0
MB_OKCANCEL == 1
MB_ABORTRETRYIGNORE == 2
MB_YESNOCANCEL == 3
MB_YESNO == 4
MB_RETRYCANCEL == 5
MB_CANCELTRYCONTINUE == 6

MB_ICONHAND == 16
MB_ICONEXCLAMATION == 48
MB_ICONASTERISK == 64

MB_DEFBUTTON1 == 0
MB_DEFBUTTON2 == 256
MB_DEFBUTTON3 == 512
MB_DEFBUTTON4 == 768

MB_APPLMODAL == 0
MB_SYSTEMMODAL == 4096
MB_TASKMODAL == 8192

MB_HELP == 16384
MB_SETFOREGROUND == 65536
MB_DEFAULT_DESKTOP_ONLY == 131072
MB_TOPMOST == 262144
MB_RIGHT == 524288
MB_RTLREADING == 1048576
MB_SERVICE_NOTIFICATION == 2097152

IDOK == 1
IDCANCEL == 2
IDABORT == 3
IDRETRY == 4
IDIGNORE == 5
IDYES == 6
IDNO == 7
IDCONTINUE == 11

\* MESSAGEBOX_STYLE::default()
MESSAGEBOX_STYLE_default == 0

---------------------------------------------------------------------------
(* Value domains *)

Styles == {"Ok_", "OkCancel", "AbortRetryIgnore", "YesNoCancel", "YesNo",
           "RetryCancel", "CancelRetryContinue"}

Icons == {"Exclamation", "Warning", "Information", "Asterisk", "Stop",
          "Error", "Hand"}

Modalities == {"App", "Task", "System"}

\* Texts are sequences of characters; character 0 is NUL.
NUL == 0
ContentInputs == { <<1>>, <<1, NUL, 1>> }
HeaderInputs == { <<>>, <<2>>, <<NUL>> }
\* What a read through a dangling pointer may find instead of the text.
Garbage == <<3>>

Handles == {1, 2}

Codes == (0 - NegCodes) .. MaxCode
\* What MessageBoxA returns in the builder model: 0 (the call failed) or
\* a button id; the decoders are run on every code in Codes on their own.
RawCodes == {0, IDOK, IDCANCEL, IDRETRY, IDNO, IDCONTINUE}

\* Option<T>: None carries the default of T so that all options compare.
Some(v) == [some |-> TRUE, val |-> v]
NoneText == [some |-> FALSE, val |-> <<>>]
NoneIcon == [some |-> FALSE, val |-> ""]
NoneHwnd == [some |-> FALSE, val |-> 0]

---------------------------------------------------------------------------
(* crate::Result values *)

Ok(variant) == [tag |-> "Ok", val |-> variant, code |-> 0]
UnknownResponseCode(c) == [tag |-> "Err", val |-> "UnknownResponseCode", code |-> c]
InvalidString == [tag |-> "Err", val |-> "InvalidString", code |-> 0]
NoResult == [tag |-> "None", val |-> "", code |-> 0]

---------------------------------------------------------------------------
(* style.rs: style codes and response decoders *)

style_code(style) ==
    CASE style = "Ok_" -> MB_OK
      [] style = "OkCancel" -> MB_OKCANCEL
      [] style = "AbortRetryIgnore" -> MB_ABORTRETRYIGNORE
      [] style = "YesNoCancel" -> MB_YESNOCANCEL
      [] style = "YesNo" -> MB_YESNO
      [] style = "RetryCancel" -> MB_RETRYCANCEL
      [] style = "CancelRetryContinue" -> MB_CANCELTRYCONTINUE

\* The variants of each style's response enumeration.
ResponseVariants(style) ==
    CASE style = "Ok_" -> {"Ok"}
      [] style = "OkCancel" -> {"Ok", "Cancel"}
      [] style = "AbortRetryIgnore" -> {"Abort", "Retry", "Ignore"}
      [] style = "YesNoCancel" -> {"Yes", "No", "Cancel"}
      [] style = "YesNo" -> {"Yes", "No"}
      [] style = "RetryCancel" -> {"Retry", "Cancel"}
      [] style = "CancelRetryContinue" -> {"Cancel", "Retry", "Continue"}

OkResponse_try_from(value) ==
    IF value = IDOK THEN Ok("Ok") ELSE UnknownResponseCode(value)

OkCancelResponse_try_from(value) ==
    IF value = IDOK THEN Ok("Ok")
    ELSE IF value = IDCANCEL THEN Ok("Cancel")
    ELSE UnknownResponseCode(value)

AbortRetryIgnoreResponse_try_from(value) ==
    IF value = IDABORT THEN Ok("Abort")
    ELSE IF value = IDRETRY THEN Ok("Retry")
    ELSE IF value = IDIGNORE THEN Ok("Ignore")
    ELSE UnknownResponseCode(value)

YesNoCancelResponse_try_from(value) ==
    IF value = IDYES THEN Ok("Yes")
    ELSE IF value = IDNO THEN Ok("No")
    ELSE IF value = IDCANCEL THEN Ok("Cancel")
    ELSE UnknownResponseCode(value)

YesNoResponse_try_from(value) ==
    IF value = IDYES THEN Ok("Yes")
    ELSE IF value = IDNO THEN Ok("No")
    ELSE UnknownResponseCode(value)

RetryCancelResponse_try_from(value) ==
    IF value = IDRETRY THEN Ok("Retry")
    ELSE IF value = IDCANCEL THEN Ok("Cancel")
    ELSE UnknownResponseCode(value)

CancelRetryContinueResponse_try_from(value) ==
    IF value = IDRETRY THEN Ok("Retry")
    ELSE IF value = IDCANCEL THEN Ok("Cancel")
    ELSE IF value = IDCONTINUE THEN Ok("Continue")
    ELSE UnknownResponseCode(value)

\* T::Return::try_from(result): the decoder bound to style T.
Return_try_from(style, value) ==
    CASE style = "Ok_" -> OkResponse_try_from(value)
      [] style = "OkCancel" -> OkCancelResponse_try_from(value)
      [] style = "AbortRetryIgnore" -> AbortRetryIgnoreResponse_try_from(value)
      [] style = "YesNoCancel" -> YesNoCancelResponse_try_from(value)
      [] style = "YesNo" -> YesNoResponse_try_from(value)
      [] style = "RetryCancel" -> RetryCancelResponse_try_from(value)
      [] style = "CancelRetryContinue" -> CancelRetryContinueResponse_try_from(value)

---------------------------------------------------------------------------
(* icon.rs, modality.rs: flag conversions *)

Icon_into(value) ==
    CASE value = "Exclamation" -> MB_ICONEXCLAMATION
      [] value = "Warning" -> MB_ICONEXCLAMATION
      [] value = "Information" -> MB_ICONASTERISK
      [] value = "Asterisk" -> MB_ICONASTERISK
      [] value = "Stop" -> MB_ICONHAND
      [] value = "Error" -> MB_ICONHAND
      [] value = "Hand" -> MB_ICONHAND

Modality_into(value) ==
    CASE value = "App" -> MB_APPLMODAL
      [] value = "Task" -> MB_TASKMODAL
      [] value = "System" -> MB_SYSTEMMODAL

\* MESSAGEBOX_STYLE's BitOr on the underlying u32.
RECURSIVE BitOr(_, _)
BitOr(a, b) ==
    IF a = 0 THEN b
    ELSE IF b = 0 THEN a
    ELSE (IF a % 2 = 1 \/ b % 2 = 1 THEN 1 ELSE 0) + 2 * BitOr(a \div 2, b \div 2)

\* Whether every bit of flag is set in word (flag is a single bit or a bit field).
RECURSIVE HasBits(_, _)
HasBits(word, flag) ==
    IF flag = 0 THEN TRUE
    ELSE /\ (flag % 2 = 1 => word % 2 = 1)
         /\ HasBits(word \div 2, flag \div 2)

---------------------------------------------------------------------------
(* dialog.rs: WinDialog<T> *)

\* #[derive(Default)] of WinDialog<T>, with T::default() == style.
WinDialog_default(style) ==
    [ header |-> NoneText,
      content |-> <<>>,
      icon |-> NoneIcon,
      style |-> style,
      default_button |-> MESSAGEBOX_STYLE_default,
      modality |-> "App",
      default_desktop_only |-> FALSE,
      right_justify_text |-> FALSE,
      right_to_left_reading |-> FALSE,
      foreground |-> FALSE,
      topmost |-> FALSE,
      is_service_notification |-> FALSE ]

\* WinDialog::new(content): impl WinDialog, i.e. WinDialog<OkCancel>.
WinDialog_new(content) ==
    [WinDialog_default("OkCancel") EXCEPT !.content = content, !.style = "OkCancel"]

with_header(self, header) == [self EXCEPT !.header = Some(header)]

with_icon(self, icon) == [self EXCEPT !.icon = Some(icon)]

set_modality(self, modality) == [self EXCEPT !.modality = modality]

set_default_desktop_only(self) == [self EXCEPT !.default_desktop_only = TRUE]

set_right_justify(self) == [self EXCEPT !.right_justify_text = TRUE]

set_right_to_left_reading(self) == [self EXCEPT !.right_to_left_reading = TRUE]

set_foreground(self) == [self EXCEPT !.foreground = TRUE]

set_topmost(self) == [self EXCEPT !.topmost = TRUE]

make_service_notification(self) == [self EXCEPT !.is_service_notification = TRUE]

\* set_parent_window without the reset of the service-notification flag.
set_parent_window_keeps_service(self, handle) ==
    [inner |-> self, window_handle |-> handle, show_help_button |-> FALSE]

\* WinDialog::set_parent_window: the WinDialogWithParent it returns.
set_parent_window(self, handle) ==
    [ inner |-> [self EXCEPT !.is_service_notification = FALSE],
      window_handle |-> handle,
      show_help_button |-> FALSE ]

\* with_style that ignores its argument.
with_style_keeps_style(self, style) == self

\* with_style that takes the icon from Default instead of the receiver.
with_style_drops_icon(self, style) ==
    [self EXCEPT !.style = style, !.icon = NoneIcon]

\* with_style that takes the justification flag from Default.
with_style_drops_right_justify(self, style) ==
    [self EXCEPT !.style = style, !.right_justify_text = FALSE]

\* WinDialog::with_style: a WinDialog<N> built field by field.
with_style(self, style) ==
    [ header |-> self.header,
      content |-> self.content,
      style |-> style,
      foreground |-> self.foreground,
      right_to_left_reading |-> self.right_to_left_reading,
      icon |-> self.icon,
      default_button |-> self.default_button,
      modality |-> self.modality,
      topmost |-> self.topmost,
      is_service_notification |-> self.is_service_notification,
      default_desktop_only |-> self.default_desktop_only,
      right_justify_text |-> self.right_justify_text ]

\* The per-style set_default_<button> helpers of WinDialog<T>: name and flag.
DefaultHelpers(style) ==
    CASE style = "Ok_" -> {}
      [] style = "OkCancel" -> { <<"set_default_cancel", MB_DEFBUTTON2>> }
      [] style = "AbortRetryIgnore" ->
            { <<"set_default_retry", MB_DEFBUTTON2>>,
              <<"set_default_ignore", MB_DEFBUTTON3>> }
      [] style = "YesNoCancel" ->
            { <<"set_default_no", MB_DEFBUTTON2>>,
              <<"set_default_cancel", MB_DEFBUTTON3>> }
      [] style = "YesNo" -> { <<"set_default_no", MB_DEFBUTTON2>> }
      [] style = "RetryCancel" -> { <<"set_default_cancel", MB_DEFBUTTON2>> }
      [] style = "CancelRetryContinue" ->
            { <<"set_default_retry", MB_DEFBUTTON2>>,
              <<"set_default_continue", MB_DEFBUTTON3>> }

\* The body shared by every set_default_<button> helper.
set_default(self, button) == [self EXCEPT !.default_button = button]

\* CString::new that does not look for an interior NUL.
CString_new_unchecked(text) == [ok |-> TRUE, bytes |-> text]

\* CString::new: fails on an interior NUL.
CString_new(text) ==
    IF \E i \in 1..Len(text) : text[i] = NUL
    THEN [ok |-> FALSE, bytes |-> <<>>]
    ELSE [ok |-> TRUE, bytes |-> text]

\* The uType argument show_inner passes to MessageBoxA.
style_word(self, help_button) ==
    LET icon == IF self.icon.some THEN Icon_into(self.icon.val)
                ELSE MESSAGEBOX_STYLE_default
        default_button == self.default_button
        default_deskop_only == IF self.default_desktop_only
                               THEN MB_DEFAULT_DESKTOP_ONLY
                               ELSE MESSAGEBOX_STYLE_default
        right_justify == IF self.right_justify_text THEN MB_RIGHT
                         ELSE MESSAGEBOX_STYLE_default
        right_to_left_reading == IF self.right_to_left_reading THEN MB_RTLREADING
                                 ELSE MESSAGEBOX_STYLE_default
        foreground == IF self.foreground THEN MB_SETFOREGROUND
                      ELSE MESSAGEBOX_STYLE_default
        topmost == IF self.topmost THEN MB_TOPMOST ELSE MESSAGEBOX_STYLE_default
        is_service_notif == IF self.is_service_notification
                            THEN MB_SERVICE_NOTIFICATION
                            ELSE MESSAGEBOX_STYLE_default
    IN  BitOr(BitOr(BitOr(BitOr(BitOr(BitOr(BitOr(BitOr(BitOr(
            style_code(self.style), icon), help_button), default_button),
            default_deskop_only), right_justify), right_to_left_reading),
            foreground), topmost), is_service_notif)

\* show_inner that takes a failed native call (return 0) for a dismissal.
show_inner_defaults(self, help_button, raw, stale) ==
    IF ~CString_new(self.content).ok
       \/ (self.header.some /\ ~CString_new(self.header.val).ok)
    THEN [calls |-> <<>>, result |-> InvalidString]
    ELSE [ calls |-> << [ hWnd |-> NoneHwnd,
                          lpText |-> CString_new(self.content).bytes,
                          lpCaption |->
                              IF self.header.some
                              THEN Some(IF stale THEN Garbage
                                        ELSE CString_new(self.header.val).bytes)
                              ELSE NoneText,
                          uType |-> style_word(self, help_button),
                          ret |-> raw ] >>,
           result |-> IF raw = 0 THEN Return_try_from(self.style, IDCANCEL)
                      ELSE Return_try_from(self.style, raw) ]

\* WinDialog::show_inner.  raw is the value MessageBoxA returns; stale says
\* whether the caption read through header_ptr, which points into a CString
\* dropped before the call, finds other bytes than the header's.
show_inner(self, help_button, raw, stale) ==
    IF ~CString_new(self.content).ok
    THEN [calls |-> <<>>, result |-> InvalidString]
    ELSE IF self.header.some /\ ~CString_new(self.header.val).ok
    THEN [calls |-> <<>>, result |-> InvalidString]
    ELSE [ calls |-> << [ hWnd |-> NoneHwnd,
                          lpText |-> CString_new(self.content).bytes,
                          lpCaption |->
                              IF self.header.some
                              THEN Some(IF stale THEN Garbage
                                        ELSE CString_new(self.header.val).bytes)
                              ELSE NoneText,
                          uType |-> style_word(self, help_button),
                          ret |-> raw ] >>,
           result |-> Return_try_from(self.style, raw) ]

\* WinDialog::show
show(self, raw, stale) == show_inner(self, MESSAGEBOX_STYLE_default, raw, stale)

---------------------------------------------------------------------------
(* dialog.rs: WinDialogWithParent<T>, as [inner, window_handle, show_help_button] *)

p_with_help_button(self) == [self EXCEPT !.show_help_button = TRUE]

p_with_header(self, header) == [self EXCEPT !.inner.header = Some(header)]

p_with_icon(self, icon) == [self EXCEPT !.inner.icon = Some(icon)]

p_set_modality(self, modality) == [self EXCEPT !.inner.modality = modality]

p_set_default_desktop_only(self) == [self EXCEPT !.inner.default_desktop_only = TRUE]

p_set_right_justify(self) == [self EXCEPT !.inner.right_justify_text = TRUE]

p_set_right_to_left_reading(self) == [self EXCEPT !.inner.right_to_left_reading = TRUE]

p_set_foreground(self) == [self EXCEPT !.inner.foreground = TRUE]

p_set_topmost(self) == [self EXCEPT !.inner.topmost = TRUE]

\* with_style that takes show_help_button from Default.
p_with_style_drops_help(self, style) ==
    [self EXCEPT !.inner.style = style, !.show_help_button = FALSE]

\* WinDialogWithParent::with_style
p_with_style(self, style) ==
    [ inner |->
        [ header |-> self.inner.header,
          content |-> self.inner.content,
          style |-> style,
          topmost |-> self.inner.topmost,
          is_service_notification |-> FALSE,
          right_to_left_reading |-> self.inner.right_to_left_reading,
          modality |-> self.inner.modality,
          icon |-> self.inner.icon,
          default_button |-> self.inner.default_button,
          default_desktop_only |-> self.inner.default_desktop_only,
          right_justify_text |-> self.inner.right_justify_text,
          foreground |-> self.inner.foreground ],
      window_handle |-> self.window_handle,
      show_help_button |-> self.show_help_button ]

\* The per-style set_default_<button> helpers of WinDialogWithParent<T>.
ParentDefaultHelpers(style) ==
    CASE style = "Ok_" -> {}
      [] style = "OkCancel" ->
            { <<"set_default_help", MB_DEFBUTTON3>>,
              <<"set_default_cancel", MB_DEFBUTTON2>> }
      [] style = "AbortRetryIgnore" ->
            { <<"set_default_help", MB_DEFBUTTON4>>,
              <<"set_default_retry", MB_DEFBUTTON2>>,
              <<"set_default_ignore", MB_DEFBUTTON3>> }
      [] style = "YesNoCancel" ->
            { <<"set_default_help", MB_DEFBUTTON4>>,
              <<"set_default_no", MB_DEFBUTTON2>>,
              <<"set_default_cancel", MB_DEFBUTTON3>> }
      [] style = "YesNo" ->
            { <<"set_default_help", MB_DEFBUTTON3>>,
              <<"set_default_no", MB_DEFBUTTON2>> }
      [] style = "RetryCancel" ->
            { <<"set_default_help", MB_DEFBUTTON3>>,
              <<"set_default_cancel", MB_DEFBUTTON2>> }
      [] style = "CancelRetryContinue" ->
            { <<"set_default_cancel", MB_DEFBUTTON1>>,
              <<"set_default_help", MB_DEFBUTTON4>>,
              <<"set_default_retry", MB_DEFBUTTON2>>,
              <<"set_default_continue", MB_DEFBUTTON3>> }

p_set_default(self, button) == [self EXCEPT !.inner.default_button = button]

\* WinDialogWithParent::show
p_show(self, raw, stale) ==
    LET help_button == IF self.show_help_button THEN MB_HELP
                       ELSE MESSAGEBOX_STYLE_default
    IN  show_inner(self.inner, help_button, raw, stale)

---------------------------------------------------------------------------
(* lib.rs: the Wscript.Shell popup builder.  A String is a sequence of     *)
(* characters, each a one-character string.                                *)

DialogStyles == { "OkClose", "OkCancelClose", "AbortRetryIgnore",
                  "YesNoCancelClose", "YesNo", "RetryCancelClose",
                  "CancelRetryContinueClose" }

\* style as usize
DialogStyle_as_usize(style) ==
    CASE style = "OkClose" -> 64
      [] style = "OkCancelClose" -> 65
      [] style = "AbortRetryIgnore" -> 66
      [] style = "YesNoCancelClose" -> 67
      [] style = "YesNo" -> 68
      [] style = "RetryCancelClose" -> 69
      [] style = "CancelRetryContinueClose" -> 70

\* Texts a caller may pass as content and as header, and durations in
\* milliseconds.
\* The backtick character U+0060 is spelled out.
Backtick == "BACKTICK"
ShellContents == { <<"x">>, <<"a", "\"", "b">>, <<Backtick>> }
ShellHeaders == { <<>>, <<"h">>, <<Backtick, "\"">> }
Durations == { 0, 1500, 20000 }

NoneDuration == [some |-> FALSE, val |-> 0]
NoneStyle == [some |-> FALSE, val |-> "OkClose"]

DigitChars == <<"0", "1", "2", "3", "4", "5", "6", "7", "8", "9">>

\* u64::to_string and usize::to_string
RECURSIVE to_string(_)
to_string(n) ==
    IF n < 10 THEN <<DigitChars[n + 1]>>
    ELSE to_string(n \div 10) \o <<DigitChars[(n % 10) + 1]>>

\* Duration::as_secs and Duration::default
as_secs(duration) == duration \div 1000
Duration_default == 0

\* Option::unwrap_or_default
unwrap_or_default(opt, default) == IF opt.some THEN opt.val ELSE default

\* format!("\"{}\"", text)
format_quoted(text) == <<"\"">> \o text \o <<"\"">>

\* #[derive(Default)] WinDialogBuilder, WinDialogBuilder::new and setters
WinDialogBuilder_default ==
    [ header |-> NoneText, content |-> <<>>,
      display_duration |-> NoneDuration, style |-> NoneStyle ]
b_new(content) == [WinDialogBuilder_default EXCEPT !.content = content]
b_with_header(self, header) == [self EXCEPT !.header = Some(header)]
b_with_duration(self, duration) ==
    [self EXCEPT !.display_duration = Some(duration)]
b_with_style(self, style) == [self EXCEPT !.style = Some(style)]

\* From<WinDialogBuilder> for WinDialog, and WinDialogBuilder::build
WinDialog_from(value) ==
    [ header |-> value.header, content |-> value.content,
      display_duration |-> value.display_duration, style |-> value.style ]
b_build(self) == WinDialog_from(self)

\* An argument list that keeps all four slots, empty when nothing fills
\* them.
get_params_padded(self) ==
    << format_quoted(self.content),
       IF self.display_duration.some
       THEN to_string(as_secs(self.display_duration.val)) ELSE <<>>,
       IF self.header.some THEN self.header.val ELSE <<>>,
       IF self.style.some
       THEN format_quoted(to_string(DialogStyle_as_usize(self.style.val)))
       ELSE <<>> >>

\* WinDialog::get_param_string up to args: the params array, flattened.
get_params(self) ==
    LET content == format_quoted(self.content)
    IN  IF self.style.some
        THEN << content,
                to_string(as_secs(unwrap_or_default(self.display_duration,
                                                    Duration_default))),
                unwrap_or_default(self.header, <<>>),
                format_quoted(to_string(DialogStyle_as_usize(self.style.val))) >>
        ELSE IF self.header.some
        THEN << content, <<>>, self.header.val >>
        ELSE IF self.display_duration.some
        THEN << content, to_string(as_secs(self.display_duration.val)) >>
        ELSE << content >>

\* [String]::join(", ")
RECURSIVE join(_)
join(args) ==
    IF args = <<>> THEN <<>>
    ELSE IF Len(args) = 1 THEN args[1]
    ELSE args[1] \o <<",", " ">> \o join(Tail(args))

get_param_string(self) == join(get_params(self))

\* format!("(New-Object -ComObject Wscript.Shell).popup({})", ...): the
\* fixed text before the parameters is kept as one element.
popup_command(self) ==
    <<"(New-Object -ComObject Wscript.Shell).popup(">>
        \o get_param_string(self) \o <<")">>

\* Results of lib.rs: io::Result<DialogResponse>, the Result of try_from,
\* or a panic of the thread.
LibOk(variant) == [tag |-> "Ok", val |-> variant]
LibErr(what) == [tag |-> "Err", val |-> what]
Panic(what) == [tag |-> "Panic", val |-> what]
NoOutcome == [tag |-> "None", val |-> ""]

\* char::is_numeric, on the characters the process outputs hold
is_numeric(c) == \E i \in 1..Len(DigitChars) : DigitChars[i] = c

\* .chars().filter(|c| c.is_numeric()).collect::<String>()
filter_numeric(text) == SelectSeq(text, is_numeric)

DigitValue(c) == (CHOOSE i \in 1..Len(DigitChars) : DigitChars[i] = c) - 1

RECURSIVE DecimalValue(_)
DecimalValue(text) ==
    IF text = <<>> THEN 0
    ELSE 10 * DecimalValue(SubSeq(text, 1, Len(text) - 1))
            + DigitValue(text[Len(text)])

\* str::parse::<u8> of a text of decimal digits
parse_u8(text) ==
    IF text = <<>> \/ DecimalValue(text) > 255
    THEN [ok |-> FALSE, val |-> 0]
    ELSE [ok |-> TRUE, val |-> DecimalValue(text)]

\* TryFrom<String> for DialogResponse
DialogResponse_try_from(value) ==
    LET code == parse_u8(value)
    IN  IF ~code.ok THEN Panic("todo: return err")
        ELSE CASE code.val = 1 -> LibOk("Ok")
               [] code.val = 2 -> LibOk("Cancel")
               [] code.val = 3 -> LibOk("Abort")
               [] code.val = 4 -> LibOk("Retry")
               [] code.val = 5 -> LibOk("Ignore")
               [] code.val = 6 -> LibOk("Yes")
               [] code.val = 7 -> LibOk("No")
               [] code.val = 10 -> LibOk("Rerun")
               [] code.val = 11 -> LibOk("Continue")
               [] OTHER -> LibErr("err")

\* What running powershell.exe may do: fail to launch, exit non-zero,
\* print bytes that are not UTF-8, or print a text.
Stdouts == { <<"7", "\r", "\n">>, <<"2", "\r", "\n">>,
             <<"1", "0", "\r", "\n">>, <<"a", "b", "c", "\r", "\n">>,
             <<"9", "9", "\r", "\n">>, <<"3", "0", "0", "\r", "\n">> }
ProcessRun(launched, success, utf8, stdout) ==
    [launched |-> launched, success |-> success, utf8 |-> utf8,
     stdout |-> stdout]
ProcessRuns ==
    { ProcessRun(FALSE, FALSE, FALSE, <<>>),
      ProcessRun(TRUE, FALSE, TRUE, <<>>),
      ProcessRun(TRUE, TRUE, FALSE, <<>>) }
        \cup { ProcessRun(TRUE, TRUE, TRUE, out) : out \in Stdouts }
NoRun == ProcessRun(FALSE, FALSE, FALSE, <<>>)

\* WinDialog::show
lib_show(self, run) ==
    [ command |-> popup_command(self),
      outcome |->
        IF ~run.launched THEN LibErr("io::Error")
        ELSE IF ~run.success THEN Panic("todo")
        ELSE IF ~run.utf8 THEN Panic("todo: error")
        ELSE LET code_raw == filter_numeric(run.stdout)
                 it == DialogResponse_try_from(code_raw)
             IN  IF it.tag = "Panic" THEN it ELSE LibOk("Ok") ]

\* No lib.rs chain is running while dialog.rs is modelled.
ShellIdle ==
    [ phase |-> "idle", cfg |-> WinDialogBuilder_default, run |-> NoRun,
      command |-> <<>>, outcome |-> NoOutcome ]

---------------------------------------------------------------------------
(* The builder as a state machine: one chain new() . setter* . show() *)

\* The WinDialog<T> fields of the value, whichever type it has.
Inner == IF kind = "WinDialog" THEN dialog ELSE dialog.inner

\* The decoder is not running while the builder is modelled.
DecIdle == [style |-> "Ok_", code |-> 0, result |-> NoResult]

Init ==
    /\ pc = "building"
    /\ kind = "WinDialog"
    /\ \E content \in ContentInputs :
          /\ dialog = WinDialog_new(content)
          /\ plain = WinDialog_new(content)
          /\ hist = [ nStyle |-> 0,
                      lastStyle |-> WinDialog_new(content).style,
                      styleLast |-> FALSE,
                      helpCalled |-> FALSE,
                      unlisted |-> FALSE,
                      defaultNoHelp |-> WinDialog_new(content).default_button ]
    /\ calls = <<>>
    /\ result = NoResult
    /\ ops = 0
    /\ dec = DecIdle
    /\ shell = ShellIdle

\* The history after a with_style(style) call, and after any other call.
Styled(style) ==
    [hist EXCEPT !.nStyle = IF @ < 2 THEN @ + 1 ELSE @, !.lastStyle = style,
                 !.styleLast = TRUE]
Other == [hist EXCEPT !.styleLast = FALSE]

\* A setter that borrows the value instead of consuming it, so that it can
\* still be called after show().
Setter_borrows(d2, p2, h2) ==
    /\ kind = "WinDialog"
    /\ ops < MaxOps
    /\ dialog' = d2
    /\ plain' = p2
    /\ hist' = h2
    /\ ops' = ops + 1
    /\ UNCHANGED <<pc, kind, calls, result, dec, shell>>

\* A builder call on a WinDialog<T> that returns a WinDialog.
Setter(d2, p2, h2) ==
    /\ pc = "building"
    /\ kind = "WinDialog"
    /\ ops < MaxOps
    /\ dialog' = d2
    /\ plain' = p2
    /\ hist' = h2
    /\ ops' = ops + 1
    /\ UNCHANGED <<pc, kind, calls, result, dec, shell>>

\* A builder call on a WinDialogWithParent<T>.
PSetter(d2, h2) ==
    /\ pc = "building"
    /\ kind = "WinDialogWithParent"
    /\ ops < MaxOps
    /\ dialog' = d2
    /\ hist' = h2
    /\ ops' = ops + 1
    /\ UNCHANGED <<pc, kind, plain, calls, result, dec, shell>>

WithHeader ==
    \E header \in HeaderInputs :
        Setter(with_header(dialog, header), with_header(plain, header), Other)

WithIcon ==
    \E icon \in Icons :
        Setter(with_icon(dialog, icon), with_icon(plain, icon), Other)

SetModality ==
    \E modality \in Modalities :
        Setter(set_modality(dialog, modality), set_modality(plain, modality), Other)

SetDefaultDesktopOnly ==
    Setter(set_default_desktop_only(dialog), set_default_desktop_only(plain), Other)

SetRightJustify ==
    Setter(set_right_justify(dialog), set_right_justify(plain), Other)

SetRightToLeftReading ==
    Setter(set_right_to_left_reading(dialog), set_right_to_left_reading(plain), Other)

SetForeground ==
    Setter(set_foreground(dialog), set_foreground(plain), Other)

SetTopmost ==
    Setter(set_topmost(dialog), set_topmost(plain), Other)

MakeServiceNotification ==
    Setter(make_service_notification(dialog), make_service_notification(plain), Other)

WithStyle ==
    \E style \in Styles :
        Setter(with_style(dialog, style), plain,
               Styled(style))

SetDefault ==
    /\ kind = "WinDialog"
    /\ \E h \in DefaultHelpers(dialog.style) :
        Setter(set_default(dialog, h[2]), plain,
               [Other EXCEPT !.unlisted = TRUE, !.defaultNoHelp = h[2]])

SetParentWindow ==
    /\ pc = "building"
    /\ kind = "WinDialog"
    /\ ops < MaxOps
    /\ \E handle \in Handles : dialog' = set_parent_window(dialog, handle)
    /\ kind' = "WinDialogWithParent"
    /\ hist' = [Other EXCEPT !.unlisted = TRUE]
    /\ ops' = ops + 1
    /\ UNCHANGED <<pc, plain, calls, result, dec, shell>>

Show ==
    /\ pc = "building"
    /\ kind = "WinDialog"
    /\ \E raw \in RawCodes, stale \in BOOLEAN :
          /\ calls' = calls \o show(dialog, raw, stale).calls
          /\ result' = show(dialog, raw, stale).result
    /\ pc' = "dispatched"
    /\ UNCHANGED <<kind, dialog, ops, plain, hist, dec, shell>>

PWithHelpButton ==
    PSetter(p_with_help_button(dialog),
            [Other EXCEPT !.helpCalled = TRUE, !.unlisted = TRUE])

PWithHeader ==
    \E header \in HeaderInputs : PSetter(p_with_header(dialog, header), Other)

PWithIcon ==
    \E icon \in Icons : PSetter(p_with_icon(dialog, icon), Other)

PSetModality ==
    \E modality \in Modalities : PSetter(p_set_modality(dialog, modality), Other)

PSetDefaultDesktopOnly == PSetter(p_set_default_desktop_only(dialog), Other)

PSetRightJustify == PSetter(p_set_right_justify(dialog), Other)

PSetRightToLeftReading == PSetter(p_set_right_to_left_reading(dialog), Other)

PSetForeground == PSetter(p_set_foreground(dialog), Other)

PSetTopmost == PSetter(p_set_topmost(dialog), Other)

PWithStyle ==
    \E style \in Styles :
        PSetter(p_with_style(dialog, style),
                Styled(style))

PSetDefault ==
    /\ kind = "WinDialogWithParent"
    /\ \E h \in ParentDefaultHelpers(dialog.inner.style) :
        PSetter(p_set_default(dialog, h[2]),
                [Other EXCEPT !.defaultNoHelp =
                                  IF h[1] = "set_default_help" THEN @ ELSE h[2]])

PShow ==
    /\ pc = "building"
    /\ kind = "WinDialogWithParent"
    /\ \E raw \in RawCodes, stale \in BOOLEAN :
          /\ calls' = calls \o p_show(dialog, raw, stale).calls
          /\ result' = p_show(dialog, raw, stale).result
    /\ pc' = "dispatched"
    /\ UNCHANGED <<kind, dialog, ops, plain, hist, dec, shell>>

Next ==
    \/ WithHeader \/ WithIcon \/ SetModality \/ SetDefaultDesktopOnly
    \/ SetRightJustify \/ SetRightToLeftReading \/ SetForeground \/ SetTopmost
    \/ MakeServiceNotification \/ WithStyle \/ SetDefault \/ SetParentWindow
    \/ Show
    \/ PWithHelpButton \/ PWithHeader \/ PWithIcon \/ PSetModality
    \/ PSetDefaultDesktopOnly \/ PSetRightJustify \/ PSetRightToLeftReading
    \/ PSetForeground \/ PSetTopmost \/ PWithStyle \/ PSetDefault \/ PShow

Spec == Init /\ [][Next]_vars

---------------------------------------------------------------------------
(* The response decoders alone, applied to every style and code *)

DecodeInit ==
    /\ pc = "decode"
    /\ kind = "WinDialog"
    /\ dialog = WinDialog_default("Ok_")
    /\ plain = WinDialog_default("Ok_")
    /\ hist = [nStyle |-> 0, lastStyle |-> "Ok_", styleLast |-> FALSE,
               helpCalled |-> FALSE, unlisted |-> FALSE,
               defaultNoHelp |-> MESSAGEBOX_STYLE_default]
    /\ calls = <<>>
    /\ result = NoResult
    /\ ops = 0
    /\ dec \in [style : Styles, code : Codes, result : {NoResult}]
    /\ shell = ShellIdle

TryFrom ==
    /\ pc = "decode"
    /\ dec.result = NoResult
    /\ dec' = [dec EXCEPT !.result = Return_try_from(dec.style, dec.code)]
    /\ UNCHANGED <<pc, kind, dialog, calls, result, ops, plain, hist, shell>>

DecodeNext == TryFrom

DecodeSpec == DecodeInit /\ [][DecodeNext]_vars

---------------------------------------------------------------------------
(* lib.rs as a state machine: WinDialogBuilder::new . setter* . build .    *)
(* show                                                                    *)

ShellInit ==
    /\ pc = "shell"
    /\ kind = "WinDialog"
    /\ dialog = WinDialog_default("Ok_")
    /\ plain = WinDialog_default("Ok_")
    /\ hist = [nStyle |-> 0, lastStyle |-> "Ok_", styleLast |-> FALSE,
               helpCalled |-> FALSE, unlisted |-> FALSE,
               defaultNoHelp |-> MESSAGEBOX_STYLE_default]
    /\ calls = <<>>
    /\ result = NoResult
    /\ ops = 0
    /\ dec = DecIdle
    /\ \E content \in ShellContents :
          shell = [ShellIdle EXCEPT !.phase = "builder",
                                    !.cfg = b_new(content)]

\* A WinDialogBuilder method fn(mut self, ..) -> Self giving the value b2.
BSetter(b2) ==
    /\ pc = "shell"
    /\ shell.phase = "builder"
    /\ shell' = [shell EXCEPT !.cfg = b2]
    /\ UNCHANGED <<pc, kind, dialog, calls, result, ops, plain, hist, dec>>

BWithHeader == \E header \in ShellHeaders : BSetter(b_with_header(shell.cfg, header))

BWithDuration ==
    \E duration \in Durations : BSetter(b_with_duration(shell.cfg, duration))

BWithStyle == \E style \in DialogStyles : BSetter(b_with_style(shell.cfg, style))

Build ==
    /\ pc = "shell"
    /\ shell.phase = "builder"
    /\ shell' = [shell EXCEPT !.phase = "dialog", !.cfg = b_build(shell.cfg)]
    /\ UNCHANGED <<pc, kind, dialog, calls, result, ops, plain, hist, dec>>

LibShow ==
    /\ pc = "shell"
    /\ shell.phase = "dialog"
    /\ \E run \in ProcessRuns :
          shell' = [shell EXCEPT !.phase = "shown", !.run = run,
                                 !.command = lib_show(shell.cfg, run).command,
                                 !.outcome = lib_show(shell.cfg, run).outcome]
    /\ UNCHANGED <<pc, kind, dialog, calls, result, ops, plain, hist, dec>>

ShellNext == BWithHeader \/ BWithDuration \/ BWithStyle \/ Build \/ LibShow

ShellSpec == ShellInit /\ [][ShellNext]_vars

---------------------------------------------------------------------------
(* Properties *)

\* The documented decode table: style -> set of <<raw code, variant>>.
DecodeTable(style) ==
    CASE style = "Ok_" -> { <<1, "Ok">> }
      [] style = "OkCancel" -> { <<1, "Ok">>, <<2, "Cancel">> }
      [] style = "AbortRetryIgnore" ->
            { <<3, "Abort">>, <<4, "Retry">>, <<5, "Ignore">> }
      [] style = "YesNoCancel" -> { <<6, "Yes">>, <<7, "No">>, <<2, "Cancel">> }
      [] style = "YesNo" -> { <<6, "Yes">>, <<7, "No">> }
      [] style = "RetryCancel" -> { <<4, "Retry">>, <<2, "Cancel">> }
      [] style = "CancelRetryContinue" ->
            { <<2, "Cancel">>, <<10, "Retry">>, <<11, "Continue">> }

TableCodes(style) == { e[1] : e \in DecodeTable(style) }

\* The style-code field of a style word (the low four bits, below the
\* icon field) and the flags above it.
TypeOf(word) == word % 16
FlagsOf(word) == word \div 16

Dispatched == pc = "dispatched"
Called == Dispatched /\ calls # <<>>

\* C1: every raw code listed for a style in the decode table decodes, with
\* that style's decoder, to Ok of the documented variant.
C1_TableCodesDecode ==
    dec.result # NoResult =>
        \A e \in DecodeTable(dec.style) :
            dec.code = e[1] => dec.result = Ok(e[2])

\* C2: every raw code that is not in a style's table is rejected by that
\* style's decoder with UnknownResponseCode carrying exactly that code.
C2_OtherCodesRejected ==
    (dec.result # NoResult /\ dec.code \notin TableCodes(dec.style)) =>
        dec.result = UnknownResponseCode(dec.code)

\* C3: show() sends the style code of the style set last and decodes the
\* native return with that style's decoder, so a successful show() yields
\* a variant of the style that was displayed.
C3_ShowUsesLastStyle ==
    Called =>
        /\ Len(calls) = 1
        /\ TypeOf(calls[1].uType) = style_code(hist.lastStyle)
        /\ result = Return_try_from(hist.lastStyle, calls[1].ret)
        /\ result.tag = "Ok" => result.val \in ResponseVariants(hist.lastStyle)

C3_Witness ==
    /\ Called
    /\ kind = "WinDialogWithParent"
    /\ hist.nStyle = 2
    /\ hist.lastStyle = "YesNo"
    /\ result = Ok("No")

\* C4: a dialog shown straight after new(), with no with_style call, sends
\* the Ok-only style code and decodes with the Ok-only decoder.
C4_NewIsOkOnly ==
    (Called /\ hist.nStyle = 0) =>
        /\ TypeOf(calls[1].uType) = MB_OK
        /\ result = OkResponse_try_from(calls[1].ret)

\* Every field of a WinDialog but its style.
OtherFields(d) == [d EXCEPT !.style = "Ok_"]

\* C5: with_style changes only the style: every other field of a WinDialog,
\* and the window handle and help flag of a WinDialogWithParent, is carried
\* over from the receiver.
C5_WithStyleFrame ==
    [][ /\ WithStyle => OtherFields(dialog') = OtherFields(dialog)
        /\ PWithStyle =>
              /\ OtherFields(dialog'.inner) = OtherFields(dialog.inner)
              /\ dialog'.window_handle = dialog.window_handle
              /\ dialog'.show_help_button = dialog.show_help_button ]_vars

\* with_style was the last call, on a parent dialog whose fields are not
\* the defaults.
C5_Witness ==
    /\ pc = "building"
    /\ kind = "WinDialogWithParent"
    /\ hist.styleLast
    /\ dialog.show_help_button
    /\ dialog.inner.style = "YesNoCancel"

\* C6: with exactly one with_style(S) among the plain setters, at whatever
\* position, what show() dispatches is what the same setters dispatch
\* without it, with the style code of S.
C6_StyleOrderIndependent ==
    (Dispatched /\ kind = "WinDialog" /\ ~hist.unlisted /\ hist.nStyle = 1) =>
        LET base == show(plain, 0, FALSE).calls
        IN  /\ dialog = [plain EXCEPT !.style = hist.lastStyle]
            /\ Len(calls) = Len(base)
            /\ \A i \in 1..Len(calls) :
                  /\ TypeOf(calls[i].uType) = style_code(hist.lastStyle)
                  /\ FlagsOf(calls[i].uType) = FlagsOf(base[i].uType)
                  /\ calls[i].lpText = base[i].lpText
                  /\ calls[i].lpCaption.some = base[i].lpCaption.some
                  /\ calls[i].hWnd = base[i].hWnd

\* Two plain setters and one style change, in any order.
C6_Witness ==
    /\ Called
    /\ kind = "WinDialog"
    /\ ~hist.unlisted
    /\ hist.nStyle = 1
    /\ ops = 3
    /\ dialog.icon.some
    /\ dialog.right_justify_text
    /\ dialog.style = "RetryCancel"

\* The WinDialogWithParent fields as show() reads them.
HelpFlag == IF kind = "WinDialogWithParent" /\ dialog.show_help_button
            THEN MB_HELP ELSE MESSAGEBOX_STYLE_default

\* C7: the style word passed to the native call is the bitwise OR of every
\* flag the configuration holds, the modality flag included.
C7_WordIsOrOfAllFlags ==
    Called =>
        calls[1].uType = BitOr(style_word(Inner, HelpFlag),
                               Modality_into(Inner.modality))

\* C8: the owner argument of the native call is the handle given to
\* set_parent_window, and none for a dialog without parent.
C8_OwnerIsParent ==
    Called =>
        calls[1].hWnd = IF kind = "WinDialogWithParent"
                        THEN Some(dialog.window_handle)
                        ELSE NoneHwnd

\* C9: a dialog with a parent window never holds the service-notification
\* flag, and no native call made from one has it in the style word.
C9_ParentNeverServiceNotification ==
    kind = "WinDialogWithParent" =>
        /\ ~dialog.inner.is_service_notification
        /\ \A i \in 1..Len(calls) :
              ~HasBits(calls[i].uType, MB_SERVICE_NOTIFICATION)

\* make_service_notification, then set_parent_window, then with_style.
C9_Witness ==
    /\ Called
    /\ kind = "WinDialogWithParent"
    /\ plain.is_service_notification
    /\ hist.styleLast
    /\ ~HasBits(calls[1].uType, MB_SERVICE_NOTIFICATION)

\* C10: the help flag is in the dispatched style word exactly when the
\* call comes from a WinDialogWithParent on which with_help_button was
\* called.
C10_HelpOnlyWithParent ==
    Called =>
        (HasBits(calls[1].uType, MB_HELP)
            <=> (kind = "WinDialogWithParent" /\ hist.helpCalled))

\* with_help_button, then with_style, then show.
C10_Witness ==
    /\ Called
    /\ kind = "WinDialogWithParent"
    /\ hist.helpCalled
    /\ hist.styleLast
    /\ HasBits(calls[1].uType, MB_HELP)

\* Whether a text has an embedded NUL character.
HasNul(text) == \E i \in 1..Len(text) : text[i] = NUL

\* Whether the content, or a header that was set, has an embedded NUL.
Unencodable == HasNul(Inner.content) \/ (Inner.header.some /\ HasNul(Inner.header.val))

\* C11: show() returns Err(InvalidString), and makes no native call, exactly
\* when the content or a header that was set has an embedded NUL.
C11_InvalidStringIffNul ==
    Dispatched =>
        /\ result = InvalidString <=> Unencodable
        /\ Unencodable => calls = <<>>
        /\ result.tag \in {"Ok", "Err"}

\* The content is clean and the header has a NUL.
C11_Witness ==
    /\ Dispatched
    /\ ~HasNul(Inner.content)
    /\ Inner.header.some
    /\ HasNul(Inner.header.val)
    /\ result = InvalidString
    /\ calls = <<>>

\* C16: a step is taken only by a value that is being built; with_style
\* leaves it being built, with the new style; dispatching consumes it as
\* it is, and nothing happens to a dispatched value: no second show, no
\* setter.
C16_Lifecycle ==
    [][ /\ pc = "building"
        /\ pc' \in {"building", "dispatched"}
        /\ pc' = "dispatched" =>
              (dialog' = dialog /\ kind' = kind /\ Len(calls') <= 1)
        /\ (WithStyle \/ PWithStyle) =>
              (pc' = "building" /\ Inner'.style = hist'.lastStyle) ]_vars

\* Built, restyled and then dispatched.
C16_Witness ==
    /\ Dispatched
    /\ hist.nStyle = 1
    /\ hist.styleLast
    /\ Inner.style = "YesNo"
    /\ ops = 2

\* C17: show() makes at most one native call; with encodable texts it makes
\* exactly one and returns the decoding of its return by the value's style,
\* UnknownResponseCode(0) for a return of 0; its only errors are
\* InvalidString and UnknownResponseCode.
C17_OneCallNoRetry ==
    Dispatched =>
        /\ Len(calls) <= 1
        /\ ~Unencodable =>
              /\ Len(calls) = 1
              /\ result = Return_try_from(Inner.style, calls[1].ret)
              /\ calls[1].ret = 0 => result = UnknownResponseCode(0)
        /\ result.tag = "Err" =>
              result.val \in {"InvalidString", "UnknownResponseCode"}
        /\ result.tag # "None"

\* The native call failed (returned 0).
C17_Witness ==
    /\ Called
    /\ calls[1].ret = 0
    /\ result = UnknownResponseCode(0)
    /\ Inner.header.some

\* C20: on a WinDialogWithParent on which with_help_button was never
\* called, the dispatched style word is the one the same calls give
\* without set_default_help.
C20_DefaultHelpNeedsHelpButton ==
    (Called /\ kind = "WinDialogWithParent" /\ ~hist.helpCalled) =>
        calls[1].uType =
            style_word([Inner EXCEPT !.default_button = hist.defaultNoHelp],
                       MESSAGEBOX_STYLE_default)

---------------------------------------------------------------------------
(* Properties of the lib.rs chain *)

Shown == shell.phase = "shown"
Args == get_params(shell.cfg)

\* The sanitization contract: every quote and backtick prefixed with a
\* backtick, the whole wrapped in quotes.
RECURSIVE Escape(_)
Escape(text) ==
    IF text = <<>> THEN <<>>
    ELSE (IF Head(text) \in {"\"", Backtick} THEN <<Backtick, Head(text)>>
          ELSE <<Head(text)>>) \o Escape(Tail(text))
Sanitize(text) == <<"\"">> \o Escape(text) \o <<"\"">>

\* C12: in the command of a shown dialog the content argument, and the
\* header argument when a header was set, is the text with every quote and
\* backtick escaped by a backtick, wrapped in quotes.
C12_TextsSanitized ==
    Shown =>
        /\ Args[1] = Sanitize(shell.cfg.content)
        /\ shell.cfg.header.some =>
              (Len(Args) >= 3 /\ Args[3] = Sanitize(shell.cfg.header.val))

\* The position of the rightmost field that is set: content 1, duration 2,
\* header 3, style 4.
Rightmost(cfg) ==
    IF cfg.style.some THEN 4
    ELSE IF cfg.header.some THEN 3
    ELSE IF cfg.display_duration.some THEN 2
    ELSE 1

\* C13: the argument list of a shown dialog ends at the rightmost field
\* that is set (one argument for content alone, two for content and
\* duration), starts with the content, ends with that field's value, and
\* the command is the arguments comma-joined inside popup(...).
C13_OmissionRule ==
    Shown =>
        /\ Len(Args) = Rightmost(shell.cfg)
        /\ Args[1] = format_quoted(shell.cfg.content)
        /\ Rightmost(shell.cfg) = 2 =>
              Args[2] = to_string(as_secs(shell.cfg.display_duration.val))
        /\ Rightmost(shell.cfg) = 3 => Args[3] = shell.cfg.header.val
        /\ Rightmost(shell.cfg) = 4 =>
              Args[4] = format_quoted(
                            to_string(DialogStyle_as_usize(shell.cfg.style.val)))
        /\ shell.command =
              <<"(New-Object -ComObject Wscript.Shell).popup(">>
                  \o join(Args) \o <<")">>

C13_Witness ==
    /\ Shown
    /\ shell.cfg.display_duration = Some(20000)
    /\ ~shell.cfg.header.some
    /\ ~shell.cfg.style.some
    /\ Args = << <<"\"", "x", "\"">>, <<"2", "0">> >>

\* The button layout of the decode table that a lib.rs style shows.
LayoutOf(style) ==
    CASE style = "OkClose" -> "Ok_"
      [] style = "OkCancelClose" -> "OkCancel"
      [] style = "AbortRetryIgnore" -> "AbortRetryIgnore"
      [] style = "YesNoCancelClose" -> "YesNoCancel"
      [] style = "YesNo" -> "YesNo"
      [] style = "RetryCancelClose" -> "RetryCancel"
      [] style = "CancelRetryContinueClose" -> "CancelRetryContinue"

\* The process ran, exited successfully and printed the text out.
Printed(out) ==
    /\ Shown
    /\ shell.run.launched /\ shell.run.success /\ shell.run.utf8
    /\ shell.run.stdout = out

\* C14: when the process exits successfully and prints a code of the
\* decode table of the configured style, show returns Ok of the variant
\* the table gives for that code.
C14_RoundTrip ==
    \A style \in DialogStyles : \A e \in DecodeTable(LayoutOf(style)) :
        (Printed(to_string(e[1]) \o <<"\r", "\n">>)
             /\ shell.cfg.style = Some(style))
            => shell.outcome = LibOk(e[2])

\* The printed text without its two-character terminator, whether it is an
\* integer, and the codes the backend accepts.
CodeText == SubSeq(shell.run.stdout, 1, Len(shell.run.stdout) - 2)
IsInteger(text) ==
    text # <<>> /\ \A i \in 1..Len(text) : is_numeric(text[i])
AcceptedCodes == {1, 2, 3, 4, 5, 6, 7, 10, 11}

\* A run of the process that the dispatcher has to report as a failure.
FailedRun ==
    \/ ~shell.run.launched
    \/ ~shell.run.success
    \/ ~shell.run.utf8
    \/ ~IsInteger(CodeText)
    \/ DecimalValue(CodeText) \notin AcceptedCodes

\* C15: a show whose process could not be launched, exited non-zero,
\* printed invalid text, printed no integer or printed an integer outside
\* the accepted codes returns an error value.
C15_FailuresReturned ==
    (Shown /\ FailedRun) => shell.outcome.tag = "Err"

\* C18: the second argument of a shown dialog, when there is one, is the
\* duration in whole seconds if a duration was set, and empty otherwise.
C18_SecondArgIsDuration ==
    (Shown /\ Len(Args) >= 2) =>
        Args[2] = IF shell.cfg.display_duration.some
                  THEN to_string(as_secs(shell.cfg.display_duration.val))
                  ELSE <<>>

\* C19: the configuration of a shown dialog serializes differently with
\* its header unset and with its header set to the empty string.
C19_BlankHeaderDistinct ==
    Shown =>
        get_params([shell.cfg EXCEPT !.header = NoneText])
            # get_params([shell.cfg EXCEPT !.header = Some(<<>>)])

---------------------------------------------------------------------------
(* The default button *)

\* The position of the button a default_button flag selects
\* (MB_DEFBUTTON1 is the first), and the number of buttons a style shows:
\* one per response variant.
ButtonIndex(flag) == (flag \div MB_DEFBUTTON2) + 1
ButtonCount(style) == Cardinality(ResponseVariants(style))
HelpShown == kind = "WinDialogWithParent" /\ dialog.show_help_button

\* C21: in every configuration whose default button was not set by
\* set_default_help, the default button is one of the buttons of the
\* current style, or the help button when that is shown.
C21_DefaultButtonShown ==
    (pc \in {"building", "dispatched"}
         /\ Inner.default_button = hist.defaultNoHelp)
        => ButtonIndex(Inner.default_button)
               <= ButtonCount(Inner.style) + (IF HelpShown THEN 1 ELSE 0)

=============================================================================
